---- MODULE Spec2Model ----
(***************************************************************************)
(* Model of package golog (nordborn/golog): the Logger type of logger.go,  *)
(* its setters, its per-level emission methods and the package-level       *)
(* facade of golog.go.                                                     *)
(*                                                                         *)
(* Strings are sequences of atoms.  An atom is a short piece of text that  *)
(* no modelled function splits: a single character such as " ", "\t" or    *)
(* "\n", the verb "%s", or a word.  Concatenation is \o.                   *)
(***************************************************************************)
EXTENDS Integers, Sequences, FiniteSets, TLC

\* ------------------------------------------------------------------------
\* Constants of the package
\* ------------------------------------------------------------------------
LevelTrace == 0
LevelDebug == 1
LevelInfo == 2
LevelWarning == 3
LevelError == 4

Ldate == 1
Ltime == 2
Lmicroseconds == 4
Llongfile == 8
Lshortfile == 16
LUTC == 32
Lmsgprefix == 64

FlagsDefault == 19
customPrefixDefault == <<"[main]:">>
OutDefault == "stdout"
ErrDefault == "stderr"
Discard == "discard"

PrefixTrace == <<"[TRC]", " ">>
PrefixDebug == <<"[DBG]", " ">>
PrefixInfo == <<"[INF]", " ">>
PrefixWarning == <<"[WRN]", " ">>
PrefixError == <<"[ERR]", " ">>
PrefixCritical == <<"[CRT]", " ">>
PrefixPanic == <<"[PNC]", " ">>
PrefixFatal == <<"[FTL]", " ">>

\* The eight internal loggers of a Logger, in field order.
LoggerNames ==
  <<"trace", "debug", "info", "warning", "error", "critical", "panic", "fatal">>

LevelNames == {LoggerNames[i] : i \in 1..Len(LoggerNames)}

\* ------------------------------------------------------------------------
\* Bounds and input sets
\* ------------------------------------------------------------------------
MaxWrites == 1

Files == {OutDefault, ErrDefault}

\* thresholds handed to SetLevel: the five named ones and one on each side
LevelInputs == (0 - 1)..5

PrefixInputs == {<<" ", "[main]:", " ", " ">>, <<"\t", " ">>}

FlagInputs == {0 - 1, 18, 300}

SinkInputs == {<<OutDefault, ErrDefault>>, <<ErrDefault, OutDefault>>}

\* the texts handed to SetPrefix and New when the prefix alone is examined:
\* every string of at most MaxPrefixLen atoms
MaxPrefixLen == 3

PrefixAtoms == {" ", "\t", "\n", "x"}

PrefixStrings == UNION {[1..n -> PrefixAtoms] : n \in 0..MaxPrefixLen}

\* arguments of an emission call: a format (used by the f variants only)
\* and the operands, all of them strings
ArgInputs == { [format |-> <<"%s", "!">>, v |-> << <<"a">>, <<"b">> >>] }

\* ------------------------------------------------------------------------
\* strings and fmt
\* ------------------------------------------------------------------------
RECURSIVE TrimLeft(_, _)
TrimLeft(s, cutset) ==
  IF s # <<>> /\ Head(s) \in cutset THEN TrimLeft(Tail(s), cutset) ELSE s

RECURSIVE TrimRight(_, _)
TrimRight(s, cutset) ==
  IF s # <<>> /\ s[Len(s)] \in cutset
    THEN TrimRight(SubSeq(s, 1, Len(s) - 1), cutset)
    ELSE s

\* strings.Trim(s, cutset)
Trim(s, cutset) == TrimRight(TrimLeft(s, cutset), cutset)

\* the bytes of an atom of text
Chars(a) ==
  IF a = "[main]:" THEN <<"[", "m", "a", "i", "n", "]", ":">> ELSE <<a>>

\* a text byte by byte
RECURSIVE Flatten(_)
Flatten(s) == IF s = <<>> THEN <<>> ELSE Chars(Head(s)) \o Flatten(Tail(s))

\* len(s)
ByteLen(s) == Len(Flatten(s))

\* a byte of whatever lies in memory behind the bytes of a string
StrayByte == "?"

\* The text a Go string value denotes: a data word pointing at the bytes
\* of data and a length word n.  With n the length of data it is data; a
\* shorter n cuts it, a longer n runs on into the memory behind it.
StringOf(data, n) ==
  LET f == Flatten(data)
  IN IF n = Len(f) THEN data
     ELSE IF n < Len(f) THEN SubSeq(f, 1, n)
     ELSE data \o [k \in 1..(n - Len(f)) |-> StrayByte]

\* fmt.Sprint of string operands: no separator is added between strings
RECURSIVE Sprint(_)
Sprint(v) == IF v = <<>> THEN <<>> ELSE Head(v) \o Sprint(Tail(v))

RECURSIVE JoinSpace(_)
JoinSpace(v) ==
  IF v = <<>> THEN <<>>
  ELSE IF Len(v) = 1 THEN Head(v)
  ELSE Head(v) \o <<" ">> \o JoinSpace(Tail(v))

\* fmt.Sprintln: operands separated by one space, then a newline
Sprintln(v) == JoinSpace(v) \o <<"\n">>

RECURSIVE Extra(_)
Extra(v) ==
  IF v = <<>> THEN <<>>
  ELSE <<"string=">> \o Head(v)
       \o (IF Len(v) > 1 THEN <<",", " ">> ELSE <<>>) \o Extra(Tail(v))

\* fmt.Sprintf over the verb %s: each verb consumes one operand, a verb
\* without operand prints %!s(MISSING), operands left over are reported
\* in a trailing %!(EXTRA ...)
RECURSIVE Sprintf(_, _)
Sprintf(format, v) ==
  IF format = <<>>
    THEN IF v = <<>> THEN <<>> ELSE <<"%!(EXTRA", " ">> \o Extra(v) \o <<")">>
  ELSE IF Head(format) = "%s"
    THEN IF v = <<>>
           THEN <<"%!s(MISSING)">> \o Sprintf(Tail(format), v)
           ELSE Head(v) \o Sprintf(Tail(format), Tail(v))
  ELSE <<Head(format)>> \o Sprintf(Tail(format), v)

\* ------------------------------------------------------------------------
\* package log: the line a log.Logger writes
\* ------------------------------------------------------------------------
Bit(f, b) == (f \div b) % 2 = 1

\* The call stack seen from log.Logger.Output, innermost first; index
\* calldepth + 1 is the frame runtime.Caller(calldepth) reports.
Stack(viaFacade) ==
  <<"log.Output", "logger.go:helper", "logger.go:method">>
  \o (IF viaFacade THEN <<"golog.go:facade">> ELSE <<>>)
  \o <<"user", "user.caller", "user.caller2">>

Frame(viaFacade, depth) == Stack(viaFacade)[depth + 1]

\* log.formatHeader without the prefix: date, time, file:line in that order
Header(f, frame) ==
  (IF Bit(f, Ldate) THEN <<"DATE", " ">> ELSE <<>>)
  \o (IF Bit(f, Ltime) \/ Bit(f, Lmicroseconds)
        THEN <<"TIME">> \o (IF Bit(f, Lmicroseconds) THEN <<".MICRO">> ELSE <<>>)
             \o <<" ">>
        ELSE <<>>)
  \o (IF Bit(f, Lshortfile) \/ Bit(f, Llongfile)
        THEN <<frame, ":LINE:", " ">>
        ELSE <<>>)

\* log.Logger.Output: prefix, header, message and a newline when the
\* message does not end with one
FormatLine(ll, frame, s) ==
  (IF Bit(ll.flag, Lmsgprefix) THEN <<>> ELSE ll.prefix)
  \o Header(ll.flag, frame)
  \o (IF Bit(ll.flag, Lmsgprefix) THEN ll.prefix ELSE <<>>)
  \o s
  \o (IF s = <<>> \/ s[Len(s)] # "\n" THEN <<"\n">> ELSE <<>>)

\* ------------------------------------------------------------------------
\* State
\* ------------------------------------------------------------------------
VARIABLES
  level,         \* Logger.level
  customPrefix,  \* Logger.customPrefix, data word: the bytes it points to
  customPrefixLen,  \* Logger.customPrefix, length word
  flags,         \* Logger.flags
  outFile,       \* Logger.outFile
  errFile,       \* Logger.errFile
  calldepth,     \* Logger.calldepth
  facade,        \* TRUE: the Logger is globalLog, called through golog.go
  ptr,           \* Logger.traceLogger .. fatalLogger: the object each names
  heap,          \* the log.Logger objects: out, prefix, flag, mutex holder
  written,       \* per file, the number of Write calls it has received
  last,          \* the most recent completed Write of an emission
  payload,       \* per goroutine, the value of the panic() it is unwinding
  exited,        \* os.Exit was called (or a panic went unrecovered)
  exitStatus,    \* the exit status once exited
  pc,            \* per goroutine, its position in the call it is running
  lcl,           \* per goroutine, the locals of that call
  nops,          \* per goroutine, the number of calls it has started
  everEnabled    \* history: the levels not suppressed by some threshold stored
                 \* since the last moment no call was in progress (included)

config ==
  <<level, customPrefix, customPrefixLen, flags, outFile, errFile, calldepth,
    facade>>
route == <<ptr, heap>>
sinks == <<written, last>>
proc == <<payload, exited, exitStatus>>
gor == <<pc, lcl, nops>>
vars == <<config, route, sinks, proc, gor, everEnabled>>

Procs == {1, 2}

\* l.customPrefix as an expression reads it
PrefixValue == StringOf(customPrefix, customPrefixLen)

IdxOf ==
  [L \in LevelNames |-> CHOOSE i \in 1..Len(LoggerNames) : LoggerNames[i] = L]

\* the position of an internal logger among the fields
Idx(L) == IdxOf[L]

LevelPrefix(L) ==
  CASE L = "trace" -> PrefixTrace
    [] L = "debug" -> PrefixDebug
    [] L = "info" -> PrefixInfo
    [] L = "warning" -> PrefixWarning
    [] L = "error" -> PrefixError
    [] L = "critical" -> PrefixCritical
    [] L = "panic" -> PrefixPanic
    [] L = "fatal" -> PrefixFatal

\* the routing of the README: Warning with the info-like levels
LevelFileReadme(L, out, err) ==
  IF L \in {"trace", "debug", "info", "warning"} THEN out ELSE err

\* the file updInternalLoggers hands to log.New for each internal logger
LevelFile(L, out, err) ==
  IF L \in {"trace", "debug", "info"} THEN out ELSE err

\* log.New(w, prefix, flag): a fresh log.Logger with a free mutex
LogNew(w, prefix, flag) == [out |-> w, prefix |-> prefix, flag |-> flag, mu |-> 0]

\* Logger.updInternalLoggers run to completion: eight fresh objects.  The
\* objects it replaces are unreachable afterwards, so the new ones are
\* named 1..8 in field order.
updInternalLoggers(out, err, cp, fl) ==
  [i \in 1..Len(LoggerNames) |->
     LogNew(LevelFile(LoggerNames[i], out, err),
            LevelPrefix(LoggerNames[i]) \o cp, fl)]

\* updOutputsToLevel with the LevelError branch of LevelWarning
DiscardedShort(lv) ==
  (IF lv = LevelDebug THEN {"trace"} ELSE {})
  \cup (IF lv = LevelInfo THEN {"trace", "debug"} ELSE {})
  \cup (IF lv \in {LevelWarning, LevelError}
          THEN {"trace", "debug", "info"} ELSE {})

\* the internal loggers Logger.updOutputsToLevel sends to ioutil.Discard
\* for a stored level: one branch per comparison of the source
Discarded(lv) ==
  (IF lv = LevelDebug THEN {"trace"} ELSE {})
  \cup (IF lv = LevelInfo THEN {"trace", "debug"} ELSE {})
  \cup (IF lv = LevelWarning THEN {"trace", "debug", "info"} ELSE {})
  \cup (IF lv = LevelError THEN {"trace", "debug", "info", "warning"} ELSE {})

\* Logger.updOutputsToLevel run to completion on the objects h
updOutputsToLevel(h, lv) ==
  [i \in DOMAIN h |->
     IF LoggerNames[i] \in Discarded(lv) THEN [h[i] EXCEPT !.out = Discard]
     ELSE h[i]]

\* a SetPrefix that trims the front of the text only
TrimPrefixLeft(p) ==
  LET t == TrimLeft(p, {" "}) IN IF t # <<>> THEN t \o <<" ">> ELSE t

\* the normalisation at the head of SetPrefix
TrimPrefix(p) ==
  LET t == Trim(p, {" "}) IN IF t # <<>> THEN t \o <<" ">> ELSE t

\* a range test that looks at the lower end only
CheckFlagsLow(f) == IF f < 0 THEN FlagsDefault ELSE f

\* the normalisation at the head of New and SetFlags
CheckFlags(f) == IF f < 0 \/ f > 255 THEN FlagsDefault ELSE f

\* a setCallDepth that keeps the depth New stored
setCallDepthKept(v) == 3

\* Logger.setCallDepth: the depth it stores
setCallDepth(v) == IF v < 1 THEN 1 ELSE v

Canonical == [L \in LevelNames |-> Idx(L)]

Enabled(lv) == LevelNames \ Discarded(lv)

NoWrite ==
  [op |-> "none", lvl |-> "none", dest |-> Discard, line |-> <<>>,
   text |-> <<>>, hlen |-> 0]

\* the operands of a log.New call, none of them evaluated yet
NoObject == LogNew(Discard, <<>>, 0)

NoLocal ==
  [op |-> "none", lvl |-> "none", m |-> "none", ll |-> 0, s |-> <<>>,
   dest |-> Discard, line |-> <<>>, hlen |-> 0, arg |-> <<>>,
   then |-> "none", cd |-> 0, new |-> NoObject, n |-> 0]

Idle == [at |-> "idle", i |-> 0, j |-> 0]

TotalWritten == written[OutDefault] + written[ErrDefault]

\* ------------------------------------------------------------------------
\* Construction
\* ------------------------------------------------------------------------
\* a New whose Logger starts at LevelDebug
NewAtDebug(p, f, isGlobal) ==
  /\ level = LevelDebug
  /\ customPrefix = TrimPrefix(p)
  /\ customPrefixLen = ByteLen(TrimPrefix(p))
  /\ flags = CheckFlags(CheckFlags(f))
  /\ outFile = OutDefault
  /\ errFile = ErrDefault
  /\ calldepth = IF isGlobal THEN setCallDepth(4) ELSE 3
  /\ facade = isGlobal
  /\ ptr = Canonical
  /\ heap = updOutputsToLevel(
              updInternalLoggers(OutDefault, ErrDefault, TrimPrefix(p),
                                 CheckFlags(CheckFlags(f))),
              LevelDebug)

\* New(customPrefix, flags), followed for globalLog by init()'s
\* setCallDepth(4).  New leaves level at its zero value, LevelTrace.
New(p, f, isGlobal) ==
  /\ level = LevelTrace
  /\ customPrefix = TrimPrefix(p)
  /\ customPrefixLen = ByteLen(TrimPrefix(p))
  /\ flags = CheckFlags(CheckFlags(f))
  /\ outFile = OutDefault
  /\ errFile = ErrDefault
  /\ calldepth = IF isGlobal THEN setCallDepth(4) ELSE 3
  /\ facade = isGlobal
  /\ ptr = Canonical
  /\ heap = updOutputsToLevel(
              updInternalLoggers(OutDefault, ErrDefault, TrimPrefix(p),
                                 CheckFlags(CheckFlags(f))),
              LevelTrace)

\* nothing written, nobody inside a call
Untouched ==
  /\ written = [f \in Files |-> 0]
  /\ last = NoWrite
  /\ payload = [g \in Procs |-> <<>>]
  /\ exited = FALSE
  /\ exitStatus = 0
  /\ pc = [g \in Procs |-> Idle]
  /\ nops = [g \in Procs |-> 0]

Fresh ==
  /\ Untouched
  /\ lcl = [g \in Procs |-> NoLocal]

Init ==
  /\ \/ New(customPrefixDefault, FlagsDefault, TRUE)
     \/ \E p \in PrefixInputs, f \in FlagInputs : New(p, f, FALSE)
  /\ Fresh
  /\ everEnabled = Enabled(LevelTrace)

\* ------------------------------------------------------------------------
\* Setters, one call at a time
\* ------------------------------------------------------------------------
\* the single caller is goroutine 1; it can call when it is not unwinding
\* a panic and the process has not exited
Running == ~exited /\ \A g \in Procs : pc[g] = Idle

\* a setter that rebuilds the internal loggers and returns
RecomputeNoFilter(lv, cp, fl, out, err) ==
  /\ heap' = updInternalLoggers(out, err, cp, fl)
  /\ ptr' = Canonical

\* l.updInternalLoggers(); l.updOutputsToLevel()
Recompute(lv, cp, fl, out, err) ==
  /\ heap' = updOutputsToLevel(updInternalLoggers(out, err, cp, fl), lv)
  /\ ptr' = Canonical

SetLevel(T) ==
  /\ Running
  /\ level' = T
  /\ UNCHANGED <<customPrefix, customPrefixLen, flags, outFile, errFile,
                 calldepth, facade, sinks, proc, gor>>
  /\ Recompute(T, PrefixValue, flags, outFile, errFile)
  /\ everEnabled' = Enabled(T)

\* the effect of SetPrefix(p) on the Logger
DoSetPrefix(p) ==
  /\ Running
  /\ customPrefix' = TrimPrefix(p)
  /\ customPrefixLen' = ByteLen(TrimPrefix(p))
  /\ UNCHANGED <<level, flags, outFile, errFile, calldepth, facade,
                 sinks, proc, pc, nops, everEnabled>>
  /\ Recompute(level, TrimPrefix(p), flags, outFile, errFile)

SetPrefix(p) == DoSetPrefix(p) /\ UNCHANGED lcl

\* a SetFlags that also puts the threshold back to LevelTrace
SetFlagsResetting(f) ==
  /\ Running
  /\ flags' = CheckFlags(f)
  /\ level' = LevelTrace
  /\ Recompute(LevelTrace, PrefixValue, CheckFlags(f), outFile, errFile)
  /\ UNCHANGED <<customPrefix, customPrefixLen, outFile, errFile, calldepth,
                 facade, sinks, proc, gor, everEnabled>>

SetFlags(f) ==
  /\ Running
  /\ flags' = CheckFlags(f)
  /\ UNCHANGED <<level, customPrefix, customPrefixLen, outFile, errFile,
                 calldepth, facade, sinks, proc, gor, everEnabled>>
  /\ Recompute(level, PrefixValue, CheckFlags(f), outFile, errFile)

\* a SetOutput that rebuilds the internal loggers and forgets the threshold
SetOutputUnfiltered(out, err) ==
  /\ Running
  /\ outFile' = out
  /\ errFile' = err
  /\ RecomputeNoFilter(level, PrefixValue, flags, out, err)
  /\ UNCHANGED <<level, customPrefix, customPrefixLen, flags, calldepth,
                 facade, sinks, proc, gor, everEnabled>>

SetOutput(out, err) ==
  /\ Running
  /\ outFile' = out
  /\ errFile' = err
  /\ UNCHANGED <<level, customPrefix, customPrefixLen, flags, calldepth,
                 facade, sinks, proc, gor, everEnabled>>
  /\ Recompute(level, PrefixValue, flags, out, err)

\* ------------------------------------------------------------------------
\* Emission
\* ------------------------------------------------------------------------
\* The helpers of logger.go: the string each hands to ll.Output.
outputln(v) == Sprintln(v)

output(v) == Sprint(v)

outputf(format, v) == Sprintf(format, v)

Methods ==
  {
   "Trace", "Traceln", "Tracef", "Debug", "Debugln", "Debugf",
   "Info", "Infoln", "Infof", "Print", "Println", "Printf",
   "Warning", "Warningln", "Warningf", "Error", "Errorln", "Errorf",
   "Critical", "Criticalln", "Criticalf", "Panic", "Panicln",
   "Panicf", "Fatal", "Fatalln", "Fatalf"}

\* emission methods whose Print, Println and Printf name the debug logger
CallPrintAsDebug(m, a) ==
  CASE m = "Trace" ->
        [ll |-> "trace", s |-> output(a.v), then |-> "return", value |-> <<>>]
    [] m = "Traceln" ->
        [ll |-> "trace", s |-> outputln(a.v), then |-> "return", value |-> <<>>]
    [] m = "Tracef" ->
        [ll |-> "trace", s |-> outputf(a.format, a.v), then |-> "return", value |-> <<>>]
    [] m = "Debug" ->
        [ll |-> "debug", s |-> output(a.v), then |-> "return", value |-> <<>>]
    [] m = "Debugln" ->
        [ll |-> "debug", s |-> outputln(a.v), then |-> "return", value |-> <<>>]
    [] m = "Debugf" ->
        [ll |-> "debug", s |-> outputf(a.format, a.v), then |-> "return", value |-> <<>>]
    [] m = "Info" ->
        [ll |-> "info", s |-> output(a.v), then |-> "return", value |-> <<>>]
    [] m = "Infoln" ->
        [ll |-> "info", s |-> outputln(a.v), then |-> "return", value |-> <<>>]
    [] m = "Infof" ->
        [ll |-> "info", s |-> outputf(a.format, a.v), then |-> "return", value |-> <<>>]
    [] m = "Print" ->
        [ll |-> "debug", s |-> output(a.v), then |-> "return", value |-> <<>>]
    [] m = "Println" ->
        [ll |-> "debug", s |-> outputln(a.v), then |-> "return", value |-> <<>>]
    [] m = "Printf" ->
        [ll |-> "debug", s |-> outputf(a.format, a.v), then |-> "return", value |-> <<>>]
    [] m = "Warning" ->
        [ll |-> "warning", s |-> output(a.v), then |-> "return", value |-> <<>>]
    [] m = "Warningln" ->
        [ll |-> "warning", s |-> outputln(a.v), then |-> "return", value |-> <<>>]
    [] m = "Warningf" ->
        [ll |-> "warning", s |-> outputf(a.format, a.v), then |-> "return", value |-> <<>>]
    [] m = "Error" ->
        [ll |-> "error", s |-> output(a.v), then |-> "return", value |-> <<>>]
    [] m = "Errorln" ->
        [ll |-> "error", s |-> outputln(a.v), then |-> "return", value |-> <<>>]
    [] m = "Errorf" ->
        [ll |-> "error", s |-> outputf(a.format, a.v), then |-> "return", value |-> <<>>]
    [] m = "Critical" ->
        [ll |-> "critical", s |-> output(a.v), then |-> "return", value |-> <<>>]
    [] m = "Criticalln" ->
        [ll |-> "critical", s |-> outputln(a.v), then |-> "return", value |-> <<>>]
    [] m = "Criticalf" ->
        [ll |-> "critical", s |-> outputf(a.format, a.v), then |-> "return", value |-> <<>>]
    [] m = "Panic" ->
        LET s == Sprint(a.v)
        IN [ll |-> "panic", s |-> output(<<s>>), then |-> "panic", value |-> s]
    [] m = "Panicln" ->
        LET s == Sprintln(a.v)
        IN [ll |-> "panic", s |-> outputln(<<s>>), then |-> "panic", value |-> s]
    [] m = "Panicf" ->
        LET s == Sprintf(a.format, a.v)
        IN [ll |-> "panic", s |-> outputf(a.format, <<s>>), then |-> "panic", value |-> s]
    [] m = "Fatal" ->
        [ll |-> "fatal", s |-> output(a.v), then |-> "exit", value |-> <<>>]
    [] m = "Fatalln" ->
        [ll |-> "fatal", s |-> outputln(a.v), then |-> "exit", value |-> <<>>]
    [] m = "Fatalf" ->
        [ll |-> "fatal", s |-> outputf(a.format, a.v), then |-> "exit", value |-> <<>>]

\* The body of each emission method: the internal logger it names, the
\* string its helper hands to ll.Output, what follows the helper call
\* (return, panic(value) or os.Exit(1)).
Call(m, a) ==
  CASE m = "Trace" ->
        [ll |-> "trace", s |-> output(a.v), then |-> "return", value |-> <<>>]
    [] m = "Traceln" ->
        [ll |-> "trace", s |-> outputln(a.v), then |-> "return", value |-> <<>>]
    [] m = "Tracef" ->
        [ll |-> "trace", s |-> outputf(a.format, a.v), then |-> "return", value |-> <<>>]
    [] m = "Debug" ->
        [ll |-> "debug", s |-> output(a.v), then |-> "return", value |-> <<>>]
    [] m = "Debugln" ->
        [ll |-> "debug", s |-> outputln(a.v), then |-> "return", value |-> <<>>]
    [] m = "Debugf" ->
        [ll |-> "debug", s |-> outputf(a.format, a.v), then |-> "return", value |-> <<>>]
    [] m = "Info" ->
        [ll |-> "info", s |-> output(a.v), then |-> "return", value |-> <<>>]
    [] m = "Infoln" ->
        [ll |-> "info", s |-> outputln(a.v), then |-> "return", value |-> <<>>]
    [] m = "Infof" ->
        [ll |-> "info", s |-> outputf(a.format, a.v), then |-> "return", value |-> <<>>]
    [] m = "Print" ->
        [ll |-> "info", s |-> output(a.v), then |-> "return", value |-> <<>>]
    [] m = "Println" ->
        [ll |-> "info", s |-> outputln(a.v), then |-> "return", value |-> <<>>]
    [] m = "Printf" ->
        [ll |-> "info", s |-> outputf(a.format, a.v), then |-> "return", value |-> <<>>]
    [] m = "Warning" ->
        [ll |-> "warning", s |-> output(a.v), then |-> "return", value |-> <<>>]
    [] m = "Warningln" ->
        [ll |-> "warning", s |-> outputln(a.v), then |-> "return", value |-> <<>>]
    [] m = "Warningf" ->
        [ll |-> "warning", s |-> outputf(a.format, a.v), then |-> "return", value |-> <<>>]
    [] m = "Error" ->
        [ll |-> "error", s |-> output(a.v), then |-> "return", value |-> <<>>]
    [] m = "Errorln" ->
        [ll |-> "error", s |-> outputln(a.v), then |-> "return", value |-> <<>>]
    [] m = "Errorf" ->
        [ll |-> "error", s |-> outputf(a.format, a.v), then |-> "return", value |-> <<>>]
    [] m = "Critical" ->
        [ll |-> "critical", s |-> output(a.v), then |-> "return", value |-> <<>>]
    [] m = "Criticalln" ->
        [ll |-> "critical", s |-> outputln(a.v), then |-> "return", value |-> <<>>]
    [] m = "Criticalf" ->
        [ll |-> "critical", s |-> outputf(a.format, a.v), then |-> "return", value |-> <<>>]
    [] m = "Panic" ->
        LET s == Sprint(a.v)
        IN [ll |-> "panic", s |-> output(<<s>>), then |-> "panic", value |-> s]
    [] m = "Panicln" ->
        LET s == Sprintln(a.v)
        IN [ll |-> "panic", s |-> outputln(<<s>>), then |-> "panic", value |-> s]
    [] m = "Panicf" ->
        LET s == Sprintf(a.format, a.v)
        IN [ll |-> "panic", s |-> outputf(a.format, <<s>>), then |-> "panic", value |-> s]
    [] m = "Fatal" ->
        [ll |-> "fatal", s |-> output(a.v), then |-> "exit", value |-> <<>>]
    [] m = "Fatalln" ->
        [ll |-> "fatal", s |-> outputln(a.v), then |-> "exit", value |-> <<>>]
    [] m = "Fatalf" ->
        [ll |-> "fatal", s |-> outputf(a.format, a.v), then |-> "exit", value |-> <<>>]

\* log.Logger.Output on the object ll: one Write of the whole line on the
\* object's writer
LogOutput(m, L, ll, s) ==
  LET frame == Frame(facade, calldepth)
      line == FormatLine(ll, frame, s)
  IN /\ last' = [op |-> m, lvl |-> L, dest |-> ll.out, line |-> line,
                 text |-> s,
                 hlen |-> Len(ll.prefix) + Len(Header(ll.flag, frame))]
     /\ written' = IF ll.out \in Files
                     THEN [written EXCEPT ![ll.out] = @ + 1]
                     ELSE written

Panicked == [at |-> "panicked", i |-> 0, j |-> 0]

\* an emission call that, when it panics, leaves the critical logger on
\* the discard writer
EmitUpToLosing(m, n) ==
  \E a \in ArgInputs :
    LET c == Call(m, a)
    IN /\ Running
       /\ TotalWritten < n
       /\ LogOutput(m, c.ll, heap[ptr[c.ll]], c.s)
       /\ payload' = IF c.then = "panic"
                       THEN [payload EXCEPT ![1] = c.value]
                       ELSE payload
       /\ pc' = IF c.then = "panic" THEN [pc EXCEPT ![1] = Panicked] ELSE pc
       /\ exited' = (c.then = "exit")
       /\ exitStatus' = IF c.then = "exit" THEN 1 ELSE exitStatus
       /\ heap' = IF c.then = "panic"
                    THEN [heap EXCEPT ![ptr["critical"]].out = Discard]
                    ELSE heap
       /\ UNCHANGED <<config, ptr, lcl, nops, everEnabled>>

\* One emission call of the single caller, run to completion, while fewer
\* than n lines have been written: the method's helper call, then its
\* panic(s) or os.Exit(1).
EmitUpTo(m, n) ==
  \E a \in ArgInputs :
    LET c == Call(m, a)
    IN /\ Running
       /\ TotalWritten < n
       /\ LogOutput(m, c.ll, heap[ptr[c.ll]], c.s)
       /\ payload' = IF c.then = "panic"
                       THEN [payload EXCEPT ![1] = c.value]
                       ELSE payload
       /\ pc' = IF c.then = "panic" THEN [pc EXCEPT ![1] = Panicked] ELSE pc
       /\ exited' = (c.then = "exit")
       /\ exitStatus' = IF c.then = "exit" THEN 1 ELSE exitStatus
       /\ UNCHANGED <<config, route, lcl, nops, everEnabled>>

\* an emission call whose Fatal methods return instead of exiting
EmitNoExit(m) ==
  \E a \in ArgInputs :
    LET c == Call(m, a)
    IN /\ Running
       /\ TotalWritten < MaxWrites
       /\ LogOutput(m, c.ll, heap[ptr[c.ll]], c.s)
       /\ payload' = IF c.then = "panic"
                       THEN [payload EXCEPT ![1] = c.value]
                       ELSE payload
       /\ pc' = IF c.then = "panic" THEN [pc EXCEPT ![1] = Panicked] ELSE pc
       /\ UNCHANGED <<exited, exitStatus>>
       /\ UNCHANGED <<config, route, lcl, nops, everEnabled>>

\* One emission call of the single caller, run to completion.
Emit(m) == EmitUpTo(m, MaxWrites)

Trace == Emit("Trace")

Traceln == Emit("Traceln")

Tracef == Emit("Tracef")

Debug == Emit("Debug")

Debugln == Emit("Debugln")

Debugf == Emit("Debugf")

Info == Emit("Info")

Infoln == Emit("Infoln")

Infof == Emit("Infof")

Print_ == Emit("Print")

Println == Emit("Println")

Printf == Emit("Printf")

Warning == Emit("Warning")

Warningln == Emit("Warningln")

Warningf == Emit("Warningf")

Error == Emit("Error")

Errorln == Emit("Errorln")

Errorf == Emit("Errorf")

Critical == Emit("Critical")

Criticalln == Emit("Criticalln")

Criticalf == Emit("Criticalf")

Panic == Emit("Panic")

Panicln == Emit("Panicln")

Panicf == Emit("Panicf")

Fatal == Emit("Fatal")

Fatalln == Emit("Fatalln")

Fatalf == Emit("Fatalf")

\* ------------------------------------------------------------------------
\* Goroutines: the same calls, statement by statement
\* ------------------------------------------------------------------------
\* The Logger has no lock of its own.  Each log.Logger object has a mutex,
\* taken by its Output around the Write and by its SetOutput.
MaxOps == 1

ConcLevelInputs == {LevelTrace}

ConcPrefixInputs == {<<"\t", " ">>}

ConcFlagInputs == {18}

ConcSinkInputs == {<<ErrDefault, OutDefault>>}

\* the threshold stored before the goroutines start: TestStdLog's first call
ConcStartLevels == {LevelInfo}

\* globalLog after one SetLevel, nothing in progress
ConcInit ==
  /\ \E T \in ConcStartLevels :
       /\ level = T
       /\ heap = updOutputsToLevel(
                   updInternalLoggers(OutDefault, ErrDefault,
                                      TrimPrefix(customPrefixDefault),
                                      FlagsDefault),
                   T)
       /\ everEnabled = Enabled(T)
  /\ customPrefix = TrimPrefix(customPrefixDefault)
  /\ customPrefixLen = ByteLen(TrimPrefix(customPrefixDefault))
  /\ flags = FlagsDefault
  /\ outFile = OutDefault
  /\ errFile = ErrDefault
  /\ calldepth = setCallDepth(4)
  /\ facade = TRUE
  /\ ptr = Canonical
  /\ Fresh

At(a, i, j) == [at |-> a, i |-> i, j |-> j]

\* The name of the object goroutine g allocates for the i-th internal
\* logger in the call it is running: 1..8 are the objects of the initial
\* state, every call has eight names of its own.
NewId(g, i) ==
  Len(LoggerNames) * ((nops[g] - 1) * Cardinality(Procs) + g) + i

\* Garbage collection: the objects of h that a Logger field p or the
\* local ll of an emission in progress refers to.
Collect(h, p, l) ==
  LET live == {p[L] : L \in LevelNames} \cup {l[g].ll : g \in Procs}
  IN [id \in DOMAIN h \cap live |-> h[id]]

\* the calls in the order of logger.go: the setters, then the emission
\* methods
CallOrder == <<"SetLevel", "SetPrefix", "SetFlags", "SetOutput", "emit">>

CallRank(op) == CHOOSE k \in 1..Len(CallOrder) : CallOrder[k] = op

\* Goroutine g can make the call op.  The goroutines are interchangeable,
\* so of two runs that differ by an exchange of the goroutines one is
\* kept: the one where the goroutine with the smaller number makes the
\* call that comes first in CallOrder.
CanStart(g, op) ==
  /\ ~exited
  /\ pc[g] = Idle
  /\ nops[g] < MaxOps
  /\ \A h \in Procs \ {g} :
       nops[h] > 0 =>
         IF h < g THEN CallRank(lcl[h].op) <= CallRank(op)
                  ELSE CallRank(op) <= CallRank(lcl[h].op)

Begin(g, op, a) ==
  /\ pc' = [pc EXCEPT ![g] = a]
  /\ lcl' = [lcl EXCEPT ![g] = [NoLocal EXCEPT !.op = op]]
  /\ nops' = [nops EXCEPT ![g] = @ + 1]

\* l.level = level
StartSetLevel(g, T) ==
  /\ CanStart(g, "SetLevel")
  /\ level' = T
  /\ everEnabled' = Enabled(T) \cup (IF \A h \in Procs : pc[h] = Idle
                                       THEN Enabled(level)
                                       ELSE everEnabled)
  /\ Begin(g, "SetLevel", At("upd", 1, 0))
  /\ UNCHANGED <<customPrefix, customPrefixLen, flags, outFile, errFile,
                 calldepth, facade, route, sinks, proc>>

\* the two words of a string value
StringWords == {"data", "len"}

\* p = strings.Trim(p, " "); ...; l.customPrefix = p.  A string is two
\* words and the store is two word stores, no lock held, in an order the
\* source does not fix: this step is the store of the word w, the trimmed
\* p stays in the locals
StartSetPrefix(g, p, w) ==
  /\ CanStart(g, "SetPrefix")
  /\ IF w = "data"
       THEN customPrefix' = TrimPrefix(p) /\ UNCHANGED customPrefixLen
       ELSE customPrefixLen' = ByteLen(TrimPrefix(p)) /\ UNCHANGED customPrefix
  /\ pc' = [pc EXCEPT ![g] = IF w = "data" THEN At("prefixLen", 0, 0)
                                            ELSE At("prefixData", 0, 0)]
  /\ lcl' = [lcl EXCEPT ![g] =
                [NoLocal EXCEPT !.op = "SetPrefix", !.arg = TrimPrefix(p)]]
  /\ nops' = [nops EXCEPT ![g] = @ + 1]
  /\ UNCHANGED <<level, flags, outFile, errFile, calldepth, facade, route,
                 sinks, proc, everEnabled>>

\* l.customPrefix = p, the store of the length word after the data word
StorePrefixLen(g) ==
  /\ ~exited
  /\ pc[g].at = "prefixLen"
  /\ customPrefixLen' = ByteLen(lcl[g].arg)
  /\ pc' = [pc EXCEPT ![g] = At("upd", 1, 0)]
  /\ lcl' = [lcl EXCEPT ![g].arg = <<>>]
  /\ UNCHANGED <<level, customPrefix, flags, outFile, errFile, calldepth,
                 facade, route, sinks, proc, nops, everEnabled>>

\* l.customPrefix = p, the store of the data word after the length word
StorePrefixData(g) ==
  /\ ~exited
  /\ pc[g].at = "prefixData"
  /\ customPrefix' = lcl[g].arg
  /\ pc' = [pc EXCEPT ![g] = At("upd", 1, 0)]
  /\ lcl' = [lcl EXCEPT ![g].arg = <<>>]
  /\ UNCHANGED <<level, customPrefixLen, flags, outFile, errFile, calldepth,
                 facade, route, sinks, proc, nops, everEnabled>>

\* l.flags = f
StartSetFlags(g, f) ==
  /\ CanStart(g, "SetFlags")
  /\ flags' = CheckFlags(f)
  /\ Begin(g, "SetFlags", At("upd", 1, 0))
  /\ UNCHANGED <<level, customPrefix, customPrefixLen, outFile, errFile,
                 calldepth, facade, route, sinks, proc, everEnabled>>

\* l.outFile = out
StartSetOutput(g, out, err) ==
  /\ CanStart(g, "SetOutput")
  /\ outFile' = out
  /\ pc' = [pc EXCEPT ![g] = At("errFile", 0, 0)]
  /\ lcl' = [lcl EXCEPT ![g] = [NoLocal EXCEPT !.op = "SetOutput", !.dest = err]]
  /\ nops' = [nops EXCEPT ![g] = @ + 1]
  /\ UNCHANGED <<level, customPrefix, customPrefixLen, flags, errFile,
                 calldepth, facade, route, sinks, proc, everEnabled>>

\* l.errFile = err
StoreErrFile(g) ==
  /\ ~exited
  /\ pc[g].at = "errFile"
  /\ errFile' = lcl[g].dest
  /\ pc' = [pc EXCEPT ![g] = At("upd", 1, 0)]
  /\ UNCHANGED <<level, customPrefix, customPrefixLen, flags, outFile,
                 calldepth, facade, route, sinks, proc, lcl, nops,
                 everEnabled>>

\* The i-th assignment of updInternalLoggers,
\*   l.xLogger = log.New(l.outFile or l.errFile, PrefixX+l.customPrefix, l.flags),
\* takes five steps, no lock held: the operands are loaded from the Logger
\* one after the other, the string l.customPrefix word by word in an order
\* the source does not fix, log.New builds the object from the loaded
\* values, and the field is stored.  pc.j is 0 before the load of the
\* file, 1 before the loads of the string, 2 with its data word loaded, 3
\* with its length word loaded, 4 before the load of l.flags and 5 before
\* the store.  A store of l.customPrefix between the two loads of its
\* words, or a load between the two stores, leaves the goroutine with the
\* data word of one string and the length of another.
UpdLoadFile(g) ==
  /\ ~exited
  /\ pc[g].at = "upd"
  /\ pc[g].j = 0
  /\ lcl' = [lcl EXCEPT ![g].new.out =
                LevelFile(LoggerNames[pc[g].i], outFile, errFile)]
  /\ pc' = [pc EXCEPT ![g].j = 1]
  /\ UNCHANGED <<config, route, sinks, proc, nops, everEnabled>>

\* the data word of l.customPrefix; with both words loaded, PrefixX + the
\* string they make
UpdLoadPrefix(g) ==
  /\ ~exited
  /\ pc[g].at = "upd"
  /\ pc[g].j \in {1, 3}
  /\ lcl' = IF pc[g].j = 1
              THEN [lcl EXCEPT ![g].new.prefix = customPrefix]
              ELSE [lcl EXCEPT ![g].new.prefix =
                                 LevelPrefix(LoggerNames[pc[g].i])
                                 \o StringOf(customPrefix, lcl[g].n),
                               ![g].n = 0]
  /\ pc' = [pc EXCEPT ![g].j = IF pc[g].j = 1 THEN 2 ELSE 4]
  /\ UNCHANGED <<config, route, sinks, proc, nops, everEnabled>>

\* the length word of l.customPrefix; with both words loaded, PrefixX +
\* the string they make
UpdLoadPrefixLen(g) ==
  /\ ~exited
  /\ pc[g].at = "upd"
  /\ pc[g].j \in {1, 2}
  /\ lcl' = IF pc[g].j = 1
              THEN [lcl EXCEPT ![g].n = customPrefixLen]
              ELSE [lcl EXCEPT ![g].new.prefix =
                                 LevelPrefix(LoggerNames[pc[g].i])
                                 \o StringOf(lcl[g].new.prefix,
                                             customPrefixLen)]
  /\ pc' = [pc EXCEPT ![g].j = IF pc[g].j = 1 THEN 3 ELSE 4]
  /\ UNCHANGED <<config, route, sinks, proc, nops, everEnabled>>

UpdLoadFlags(g) ==
  /\ ~exited
  /\ pc[g].at = "upd"
  /\ pc[g].j = 4
  /\ lcl' = [lcl EXCEPT ![g].new.flag = flags]
  /\ pc' = [pc EXCEPT ![g].j = 5]
  /\ UNCHANGED <<config, route, sinks, proc, nops, everEnabled>>

\* the store of l.xLogger: the object built from the loaded operands
UpdStore(g) ==
  /\ ~exited
  /\ pc[g].at = "upd"
  /\ pc[g].j = 5
  /\ LET i == pc[g].i
         L == LoggerNames[i]
         id == NewId(g, i)
         obj == LogNew(lcl[g].new.out, lcl[g].new.prefix, lcl[g].new.flag)
     IN /\ ptr' = [ptr EXCEPT ![L] = id]
        /\ heap' = Collect((id :> obj) @@ heap, ptr', lcl)
        /\ pc' = [pc EXCEPT ![g] = IF i < Len(LoggerNames)
                                     THEN At("upd", i + 1, 0)
                                     ELSE At("test", 0, 1)]
  /\ lcl' = [lcl EXCEPT ![g].new = NoObject]
  /\ UNCHANGED <<config, sinks, proc, nops, everEnabled>>

\* the level the j-th if of updOutputsToLevel compares with; its body
\* discards the first j internal loggers
TestLevel(j) == <<LevelDebug, LevelInfo, LevelWarning, LevelError>>[j]

AfterTest(j) == IF j < 4 THEN At("test", 0, j + 1) ELSE Idle

\* if l.level == LevelX {
TestLevelIs(g) ==
  /\ ~exited
  /\ pc[g].at = "test"
  /\ pc' = [pc EXCEPT ![g] = IF level = TestLevel(pc[g].j)
                               THEN At("disc", 1, pc[g].j)
                               ELSE AfterTest(pc[g].j)]
  /\ UNCHANGED <<config, route, sinks, proc, lcl, nops, everEnabled>>

\* l.xLogger.SetOutput(ioutil.Discard), first step: the field l.xLogger is
\* loaded, no lock held
DiscardLoad(g) ==
  /\ ~exited
  /\ pc[g].at = "disc"
  /\ lcl' = [lcl EXCEPT ![g].ll = ptr[LoggerNames[pc[g].i]]]
  /\ pc' = [pc EXCEPT ![g].at = "setout"]
  /\ UNCHANGED <<config, route, sinks, proc, nops, everEnabled>>

\* log.Logger.SetOutput on the loaded object: its mutex is taken once it
\* is free, out is stored, the mutex is released
SetOutputDiscard(g) ==
  /\ ~exited
  /\ pc[g].at = "setout"
  /\ LET i == pc[g].i
         j == pc[g].j
         obj == lcl[g].ll
     IN /\ heap[obj].mu = 0
        /\ lcl' = [lcl EXCEPT ![g].ll = 0]
        /\ heap' = Collect([heap EXCEPT ![obj].out = Discard], ptr, lcl')
        /\ pc' = [pc EXCEPT ![g] = IF i < j THEN At("disc", i + 1, j)
                                     ELSE AfterTest(j)]
  /\ UNCHANGED <<config, ptr, sinks, proc, nops, everEnabled>>

\* an emission method up to its helper's call of ll.Output: the fields
\* l.calldepth and l.xLogger are read, the message is formatted
StartEmit(g, m, a) ==
  /\ CanStart(g, "emit")
  /\ LET c == Call(m, a)
     IN lcl' = [lcl EXCEPT ![g] =
                  [NoLocal EXCEPT !.op = "emit", !.m = m, !.lvl = c.ll,
                                  !.ll = ptr[c.ll], !.s = c.s, !.arg = c.value,
                                  !.then = c.then, !.cd = calldepth]]
  /\ pc' = [pc EXCEPT ![g] = At("lock", 0, 0)]
  /\ nops' = [nops EXCEPT ![g] = @ + 1]
  /\ UNCHANGED <<config, route, sinks, proc, everEnabled>>

\* ll.Output: take the object's mutex, build the line, enter Write
LockAndWrite(g) ==
  /\ ~exited
  /\ pc[g].at = "lock"
  /\ LET ll == heap[lcl[g].ll]
         frame == Frame(facade, lcl[g].cd)
     IN /\ ll.mu = 0
        /\ heap' = [heap EXCEPT ![lcl[g].ll].mu = g]
        /\ lcl' = [lcl EXCEPT ![g].dest = ll.out,
                              ![g].line = FormatLine(ll, frame, lcl[g].s),
                              ![g].hlen = Len(ll.prefix)
                                          + Len(Header(ll.flag, frame))]
  /\ pc' = [pc EXCEPT ![g] = At("write", 0, 0)]
  /\ UNCHANGED <<config, ptr, sinks, proc, nops, everEnabled>>

AfterWrite(then) ==
  CASE then = "panic" -> At("raise", 0, 0)
    [] then = "exit" -> At("exit", 0, 0)
    [] OTHER -> Idle

\* Write returns, the mutex is released, the helper returns
WriteDone(g) ==
  /\ ~exited
  /\ pc[g].at = "write"
  /\ last' = [op |-> lcl[g].m, lvl |-> lcl[g].lvl, dest |-> lcl[g].dest,
              line |-> lcl[g].line, text |-> lcl[g].s, hlen |-> lcl[g].hlen]
  /\ written' = IF lcl[g].dest \in Files
                  THEN [written EXCEPT ![lcl[g].dest] = @ + 1]
                  ELSE written
  /\ lcl' = [lcl EXCEPT ![g].ll = 0]
  /\ heap' = Collect([heap EXCEPT ![lcl[g].ll].mu = 0], ptr, lcl')
  /\ pc' = [pc EXCEPT ![g] = AfterWrite(lcl[g].then)]
  /\ UNCHANGED <<config, ptr, proc, nops, everEnabled>>

\* panic(s)
Raise(g) ==
  /\ ~exited
  /\ pc[g].at = "raise"
  /\ payload' = [payload EXCEPT ![g] = lcl[g].arg]
  /\ pc' = [pc EXCEPT ![g] = Panicked]
  /\ UNCHANGED <<config, route, sinks, exited, exitStatus, lcl, nops,
                 everEnabled>>

\* os.Exit(1)
Exit(g) ==
  /\ ~exited
  /\ pc[g].at = "exit"
  /\ exited' = TRUE
  /\ exitStatus' = 1
  /\ UNCHANGED <<config, route, sinks, payload, gor, everEnabled>>

\* the operands of the handler's Criticalln("Recovered:", r)
HandlerArgs(r) == [format |-> <<>>, v |-> << <<"Recovered:">>, r >>]

\* The deferred handler of TestStdLog in goroutine g,
\*   if r := recover(); r != nil { Criticalln("Recovered:", r) },
\* up to the call of ll.Output: recover() gives the panic value, a string
\* and so never nil, and the package-level Criticalln reads l.calldepth
\* and l.criticalLogger and formats the message.  The Write and the return
\* are the steps of every emission.
RecoverIn(g) ==
  /\ ~exited
  /\ facade
  /\ pc[g] = Panicked
  /\ LET c == Call("Criticalln", HandlerArgs(payload[g]))
     IN lcl' = [lcl EXCEPT ![g] =
                  [NoLocal EXCEPT !.op = "emit", !.m = "Criticalln",
                                  !.lvl = c.ll, !.ll = ptr[c.ll], !.s = c.s,
                                  !.arg = c.value, !.then = c.then,
                                  !.cd = calldepth]]
  /\ pc' = [pc EXCEPT ![g] = At("lock", 0, 0)]
  /\ payload' = [payload EXCEPT ![g] = <<>>]
  /\ UNCHANGED <<config, route, sinks, exited, exitStatus, nops, everEnabled>>

\* the panic reaches the top of the goroutine's stack
CrashIn(g) ==
  /\ ~exited
  /\ pc[g] = Panicked
  /\ exited' = TRUE
  /\ exitStatus' = 2
  /\ UNCHANGED <<config, route, sinks, payload, gor, everEnabled>>

ConcNext ==
  \E g \in Procs :
    \/ \E T \in ConcLevelInputs : StartSetLevel(g, T)
    \/ \E p \in ConcPrefixInputs, w \in StringWords : StartSetPrefix(g, p, w)
    \/ StorePrefixLen(g)
    \/ StorePrefixData(g)
    \/ \E f \in ConcFlagInputs : StartSetFlags(g, f)
    \/ \E o \in ConcSinkInputs : StartSetOutput(g, o[1], o[2])
    \/ StoreErrFile(g)
    \/ UpdLoadFile(g)
    \/ UpdLoadPrefix(g)
    \/ UpdLoadPrefixLen(g)
    \/ UpdLoadFlags(g)
    \/ UpdStore(g)
    \/ TestLevelIs(g)
    \/ DiscardLoad(g)
    \/ SetOutputDiscard(g)
    \/ /\ CanStart(g, "emit")
       /\ \E m \in Methods, a \in ArgInputs : StartEmit(g, m, a)
    \/ LockAndWrite(g)
    \/ WriteDone(g)
    \/ Raise(g)
    \/ Exit(g)
    \/ RecoverIn(g)
    \/ CrashIn(g)

ConcSpec == ConcInit /\ [][ConcNext]_vars

\* ------------------------------------------------------------------------
\* One caller, one call at a time
\* ------------------------------------------------------------------------
\* The deferred handler of TestStdLog run to completion by the single
\* caller: recover() gives the panic value r, Criticalln("Recovered:", r)
\* through the package-level function writes its line, the handler
\* returns.  The handler logs on globalLog: it is the recovery of a caller
\* of the shared instance.
DoRecover ==
  LET c == Call("Criticalln", HandlerArgs(payload[1]))
  IN /\ ~exited
     /\ facade
     /\ pc[1] = Panicked
     /\ LogOutput("Criticalln", c.ll, heap[ptr[c.ll]], c.s)
     /\ pc' = [pc EXCEPT ![1] = Idle]
     /\ payload' = [payload EXCEPT ![1] = <<>>]
     /\ UNCHANGED <<config, route, exited, exitStatus, nops, everEnabled>>

Recover == DoRecover /\ UNCHANGED lcl

Crash == CrashIn(1)

Next ==
  \/ \E T \in LevelInputs : SetLevel(T)
  \/ \E p \in PrefixInputs : SetPrefix(p)
  \/ \E f \in FlagInputs : SetFlags(f)
  \/ \E o \in SinkInputs : SetOutput(o[1], o[2])
  \/ Trace
  \/ Traceln
  \/ Tracef
  \/ Debug
  \/ Debugln
  \/ Debugf
  \/ Info
  \/ Infoln
  \/ Infof
  \/ Print_
  \/ Println
  \/ Printf
  \/ Warning
  \/ Warningln
  \/ Warningf
  \/ Error
  \/ Errorln
  \/ Errorf
  \/ Critical
  \/ Criticalln
  \/ Criticalf
  \/ Panic
  \/ Panicln
  \/ Panicf
  \/ Fatal
  \/ Fatalln
  \/ Fatalf
  \/ Recover
  \/ Crash

Spec == Init /\ [][Next]_vars

\* ------------------------------------------------------------------------
\* The prefix alone: New(p, f), then SetPrefix with every text, the
\* argument of the latest call kept in the caller's locals
\* ------------------------------------------------------------------------
Noted(op, p) == [NoLocal EXCEPT !.op = op, !.arg = p]

PrefixInit ==
  /\ \E p \in PrefixInputs, f \in FlagInputs :
       /\ New(p, f, FALSE)
       /\ lcl = [g \in Procs |-> IF g = 1 THEN Noted("New", p) ELSE NoLocal]
  /\ Untouched
  /\ everEnabled = Enabled(LevelTrace)

NotedSetPrefix(p) ==
  /\ DoSetPrefix(p)
  /\ lcl' = [lcl EXCEPT ![1] = Noted("SetPrefix", p)]

PrefixNext == \E p \in PrefixStrings : NotedSetPrefix(p)

PrefixSpec == PrefixInit /\ [][PrefixNext]_vars

\* ------------------------------------------------------------------------
\* The flags alone: New(p, f), then SetFlags with every integer around the
\* accepted range, the argument of the latest call kept in the caller's
\* locals
\* ------------------------------------------------------------------------
\* how far below 0 and above 255 the integers handed in reach
MaxFlagOver == 2

FlagValues == ((0 - MaxFlagOver)..(255 + MaxFlagOver)) \cup {300}

FlagsInit ==
  /\ \E p \in PrefixInputs, f \in FlagValues :
       /\ New(p, f, FALSE)
       /\ lcl = [g \in Procs |-> IF g = 1 THEN Noted("New", <<f>>) ELSE NoLocal]
  /\ Untouched
  /\ everEnabled = Enabled(LevelTrace)

NotedSetFlags(f) ==
  /\ Running
  /\ flags' = CheckFlags(f)
  /\ Recompute(level, PrefixValue, CheckFlags(f), outFile, errFile)
  /\ lcl' = [lcl EXCEPT ![1] = Noted("SetFlags", <<f>>)]
  /\ UNCHANGED <<level, customPrefix, customPrefixLen, outFile, errFile,
                 calldepth, facade, sinks, proc, pc, nops, everEnabled>>

FlagsNext == \E f \in FlagValues : NotedSetFlags(f)

FlagsSpec == FlagsInit /\ [][FlagsNext]_vars

\* ------------------------------------------------------------------------
\* A session of the shared logger as TestStdLog runs one: setters and
\* emissions through the package-level functions, several lines written,
\* a panic taken by the deferred handler
\* ------------------------------------------------------------------------
MaxLines == 3

\* the thresholds the session stores
SessionLevels == {LevelTrace, LevelInfo, LevelError}

SessionInit ==
  /\ New(customPrefixDefault, FlagsDefault, TRUE)
  /\ Fresh
  /\ everEnabled = Enabled(LevelTrace)

SessionEmit(m) == EmitUpTo(m, MaxLines)

\* the deferred handler, the panic value r it was given kept in the
\* caller's locals
NotedRecover ==
  /\ DoRecover
  /\ lcl' = [lcl EXCEPT ![1] = Noted("recover", payload[1])]

SessionNext ==
  \/ \E T \in SessionLevels : SetLevel(T)
  \/ \E p \in PrefixInputs : SetPrefix(p)
  \/ \E o \in SinkInputs : SetOutput(o[1], o[2])
  \/ \E m \in Methods : SessionEmit(m)
  \/ NotedRecover

SessionSpec == SessionInit /\ [][SessionNext]_vars

\* ------------------------------------------------------------------------
\* A Logger as New returns it: emissions only, no setter called
\* ------------------------------------------------------------------------
NewInit == Init

NewNext ==
  \/ \E m \in Methods : Emit(m)
  \/ Recover
  \/ Crash

NewSpec == NewInit /\ [][NewNext]_vars

\* ------------------------------------------------------------------------
\* Properties
\* ------------------------------------------------------------------------
Filterable == {"trace", "debug", "info", "warning", "error"}

\* the rank of a filterable level: the threshold constant of the same name
Rank(L) == Idx(L) - 1

\* the step is an emission call that reached its Write
Emitted == last' # last \/ written' # written

Deref(L) == heap[ptr[L]]

\* C1: with a named threshold stored, an emission at a filterable level
\* is written to outFile or errFile iff its rank is at least the
\* threshold and goes to the discard writer otherwise; Critical, Panic and
\* Fatal emissions are written to a file at every threshold.
C1_ThresholdFilter ==
  [][(Emitted /\ level \in LevelTrace..LevelError) =>
       IF last'.lvl \in Filterable
         THEN /\ (last'.dest \in {outFile, errFile}) <=> (Rank(last'.lvl) >= level)
              /\ (Rank(last'.lvl) < level) => last'.dest = Discard
         ELSE last'.dest \in {outFile, errFile}]_vars

C1_Witness ==
  /\ level = LevelError
  /\ last.op = "Warningln"
  /\ last.dest = Discard

\* the destination the stored configuration calls for
RouteOf(L) ==
  IF L \in Filterable /\ level \in LevelTrace..LevelError /\ Rank(L) < level
    THEN Discard
    ELSE IF L \in {"trace", "debug", "info"} THEN outFile ELSE errFile

RouteConsistent ==
  \A L \in LevelNames :
    /\ Deref(L).out = RouteOf(L)
    /\ Deref(L).prefix = LevelPrefix(L) \o PrefixValue
    /\ Deref(L).flag = flags

\* C2: with calls made one at a time, the destination, prefix and flags
\* of every internal logger are the ones the stored level, customPrefix,
\* flags, outFile and errFile give, whatever calls came before.
C2_RouteFollowsConfig ==
  (\A g \in Procs : pc[g] \in {Idle, Panicked}) => RouteConsistent

\* every setter has run, a level suppressed by SetLevel stays suppressed
C2_Witness ==
  /\ facade
  /\ level = LevelInfo
  /\ customPrefix = <<"\t", " ">>
  /\ flags = 18
  /\ outFile = ErrDefault
  /\ Deref("debug").out = Discard
  /\ Deref("info").out = ErrDefault

\* C3: an emission at a level that every threshold stored since the last
\* quiet moment suppresses never enters Write on a file, whatever setter
\* another goroutine is running.
C3_NoStaleRoute ==
  \A g \in Procs :
    (pc[g].at = "write" /\ lcl[g].dest \in Files) => lcl[g].lvl \in everEnabled

SetterOps == {"SetLevel", "SetPrefix", "SetFlags", "SetOutput"}

\* C4: once two setters run by different goroutines have both returned,
\* the internal loggers are the ones the stored fields give.
C4_SettersSerialize ==
  (\A g \in Procs : pc[g] = Idle /\ lcl[g].op \in SetterOps) => RouteConsistent

\* C5: no two emission calls are inside Write on the same file at the
\* same time.
C5_WritesSerialized ==
  \A g, h \in Procs :
    (g # h /\ pc[g].at = "write" /\ pc[h].at = "write"
       /\ lcl[g].dest \in Files)
    => lcl[g].dest # lcl[h].dest

\* C6: an emission that is written goes to outFile when its level is
\* Trace, Debug, Info or Warning and to errFile when it is Error, Critical,
\* Panic or Fatal.
C6_StaticRouting ==
  [][(Emitted /\ last'.dest # Discard) =>
       last'.dest = IF last'.lvl \in {"trace", "debug", "info", "warning"}
                      THEN outFile ELSE errFile]_vars

\* C7: with a threshold of LevelWarning or lower stored, Warning,
\* Warningln and Warningf write to errFile, where Error writes, and not to
\* outFile.
C7_WarningToErrFile ==
  [][(Emitted /\ last'.lvl = "warning" /\ level <= LevelWarning) =>
       /\ last'.dest = errFile
       /\ last'.dest = Deref("error").out
       /\ (outFile # errFile => last'.dest # outFile)]_vars

C7_Witness ==
  /\ level = LevelWarning
  /\ last.op = "Warningf"
  /\ last.dest = errFile
  /\ written[errFile] = 1

\* the message part of a written line: what follows the prefix and the
\* header, up to the first line terminator
WrittenText(w) ==
  LET rest == SubSeq(w.line, w.hlen + 1, Len(w.line))
      n == CHOOSE i \in 1..Len(rest) :
             rest[i] = "\n" /\ \A k \in 1..(i - 1) : rest[k] # "\n"
  IN SubSeq(rest, 1, n - 1)

\* C8: when Panic, Panicln or Panicf raises, the line has been written to
\* errFile under the panic prefix and the panic value is the message text
\* of that line, with or without the line terminator that ends it.
C8_PanicPayload ==
  pc[1] = Panicked =>
    /\ last.lvl = "panic"
    /\ last.dest = errFile
    /\ SubSeq(last.line, 1, Len(PrefixPanic)) = PrefixPanic
    /\ payload[1] \in {WrittenText(last), WrittenText(last) \o <<"\n">>}

\* C9: a Fatal, Fatalln or Fatalf call writes its line to errFile and ends
\* the process with status 1 at every threshold; a process that has exited
\* makes no further step.
C9_FatalExits ==
  [][/\ exited => vars' = vars
     /\ (Emitted /\ last'.lvl = "fatal") =>
          /\ last'.dest = errFile
          /\ written'[errFile] = written[errFile] + 1
          /\ exited'
          /\ exitStatus' = 1
     /\ (exited' /\ exitStatus' = 1) =>
          (last'.lvl = "fatal" /\ last'.dest = errFile')]_vars

C9_Witness ==
  /\ level = LevelError
  /\ exited
  /\ exitStatus = 1
  /\ last.op = "Fatalln"
  /\ written[errFile] = 1

\* p without the atoms of ws that surround it, followed by one space
\* when something is left
Surrounded(p, ws) ==
  LET kept == {i \in 1..Len(p) : p[i] \notin ws}
      lo == CHOOSE i \in kept : \A k \in kept : i <= k
      hi == CHOOSE i \in kept : \A k \in kept : i >= k
  IN IF kept = {} THEN <<>> ELSE SubSeq(p, lo, hi) \o <<" ">>

\* C10 as stated: after New(p, _) or SetPrefix(p) the stored customPrefix
\* is p without its surrounding whitespace (spaces, tabs, newlines),
\* followed by one space when the rest is not empty.
C10_TrimsWhitespace ==
  customPrefix = Surrounded(lcl[1].arg, {" ", "\t", "\n"})

\* C10 amended: after New(p, _) or SetPrefix(p) the stored customPrefix is
\* p without its surrounding space characters, tabs and newlines being
\* kept, followed by one space when the rest is not empty.
C10_TrimsSpaces ==
  customPrefix = Surrounded(lcl[1].arg, {" "})

C10_Witness ==
  /\ lcl[1].op = "SetPrefix"
  /\ lcl[1].arg = <<" ", "x", "\t">>
  /\ customPrefix = <<"x", "\t", " ">>

\* C11: after New(_, f) or SetFlags(f) the stored flags are f when
\* 0 <= f <= 255 and FlagsDefault otherwise, the call returns normally,
\* the stored flags lie in 0..255, and for f out of range the internal
\* loggers are the ones FlagsDefault gives under the stored level, prefix
\* and files.
C11_FlagsNormalised ==
  LET f == lcl[1].arg[1]
  IN /\ flags = IF 0 <= f /\ f <= 255 THEN f ELSE FlagsDefault
     /\ flags \in 0..255
     /\ ~exited /\ pc[1] = Idle /\ payload[1] = <<>>
     /\ \A L \in LevelNames : Deref(L).flag = flags
     /\ (f < 0 \/ f > 255) =>
          /\ ptr = Canonical
          /\ heap = updOutputsToLevel(
                      updInternalLoggers(outFile, errFile, customPrefix,
                                         FlagsDefault),
                      level)

C11_Witness ==
  /\ lcl[1].op = "SetFlags"
  /\ lcl[1].arg = <<300>>
  /\ flags = FlagsDefault
  /\ Deref("error").flag = Ldate + Ltime + Lshortfile

\* the file a level's lines go to under the stored threshold, given the
\* info sink and the error sink
SinkOf(L, out, err) ==
  IF L \in Discarded(level) THEN Discard
  ELSE IF L \in {"trace", "debug", "info"} THEN out ELSE err

\* C12: SetOutput(out, err) makes no Write and leaves what the files have
\* received as it is; it puts every level the threshold lets through on
\* the new out (Trace, Debug, Info) or the new err (the others) and keeps
\* the suppressed levels on the discard writer; every later emission makes
\* its one Write on the sink stored last, and no other file receives
\* anything.
C12_OutputRedirects ==
  [][/\ \A o \in SinkInputs :
          SetOutput(o[1], o[2]) =>
            /\ UNCHANGED <<written, last>>
            /\ \A L \in LevelNames :
                 heap'[ptr'[L]].out = SinkOf(L, o[1], o[2])
     /\ Emitted =>
          /\ last'.dest = SinkOf(last'.lvl, outFile, errFile)
          /\ \A f \in Files :
               written'[f] = written[f] + (IF f = last'.dest THEN 1 ELSE 0)]_vars

\* one line on each file, the later one an Info line written to the new
\* out after the files were exchanged, Debug still suppressed
C12_Witness ==
  /\ outFile = ErrDefault
  /\ errFile = OutDefault
  /\ level = LevelInfo
  /\ written[OutDefault] = 1
  /\ written[ErrDefault] = 1
  /\ last.op = "Info"
  /\ last.dest = ErrDefault
  /\ Deref("debug").out = Discard

\* C18: a Panic, Panicln or Panicf call and the recovery that follows
\* leave level, customPrefix, flags, the files, calldepth and every
\* internal logger as they were before the call, and the process running;
\* the Criticalln of the recovering handler makes one Write of
\* "Recovered: " and the panic value on errFile, with the line the stored
\* prefix and flags give; an emission made after the recovery goes where
\* the stored threshold and files send its level, with the line the stored
\* prefix and flags give.
C18_PanicLeavesLogger ==
  [][/\ (pc[1] # Panicked /\ pc'[1] = Panicked) => UNCHANGED <<config, route>>
     /\ (pc[1] = Panicked) =>
          /\ UNCHANGED <<config, route>>
          /\ pc'[1] = Idle
          /\ ~exited'
          /\ last'.op = "Criticalln"
          /\ last'.text = Sprintln(<< <<"Recovered:">>, payload[1] >>)
          /\ last'.dest = errFile
          /\ last'.line =
               FormatLine(LogNew(errFile, PrefixCritical \o customPrefix,
                                 flags),
                          Frame(facade, calldepth), last'.text)
          /\ written' = [written EXCEPT ![errFile] = @ + 1]
     /\ (Emitted /\ lcl[1].op = "recover") =>
          /\ last'.dest = SinkOf(last'.lvl, outFile, errFile)
          /\ last'.line =
               FormatLine(LogNew(last'.dest,
                                 LevelPrefix(last'.lvl) \o customPrefix, flags),
                          Frame(facade, calldepth), last'.text)]_vars

\* TestStdLog: SetLevel(LevelInfo), SetPrefix, Panicln, and the line of
\* Criticalln("Recovered:", r) from the deferred handler that recovered
\* the panic value
C18_Witness ==
  /\ lcl[1].op = "recover"
  /\ lcl[1].arg = <<"a", " ", "b", "\n">>
  /\ level = LevelInfo
  /\ customPrefix = <<"\t", " ">>
  /\ last.op = "Criticalln"
  /\ last.text = <<"Recovered:", " ", "a", " ", "b", "\n", "\n">>
  /\ last.dest = ErrDefault
  /\ written[ErrDefault] = 2

\* the frames of the package on the way from the user's call to
\* log.Logger.Output
InnerFrames ==
  {"log.Output", "logger.go:helper", "logger.go:method", "golog.go:facade"}

\* C13: for every emission method, on a Logger from New called directly
\* (calldepth 3) and on the shared instance called through the
\* package-level functions (calldepth 4), the frame the calldepth selects
\* is the user's calling frame, never one of the facade, the Logger method,
\* the helper or Output, and it is the location the written line carries.
C13_CallerFrame ==
  [][Emitted =>
       /\ calldepth = IF facade THEN 4 ELSE 3
       /\ Frame(facade, calldepth) = "user"
       /\ Frame(facade, calldepth) \notin InnerFrames
       /\ ((Bit(flags, Lshortfile) \/ Bit(flags, Llongfile))
             /\ ~Bit(flags, Lmsgprefix)) =>
            last'.line[last'.hlen - 2] = "user"]_vars

C13_Witness ==
  /\ facade
  /\ calldepth = 4
  /\ last.op = "Panicf"
  /\ last.line[last.hlen - 2] = "user"

\* the number of line terminators in a text
Newlines(t) == Cardinality({i \in 1..Len(t) : t[i] = "\n"})

\* C14: an emission whose arguments hold no newline writes its prefix and
\* message followed by exactly one line terminator, whatever the level
\* and the variant.
C14_OneLine ==
  last.op # "none" =>
    /\ Newlines(last.line) = 1
    /\ last.line[Len(last.line)] = "\n"
    /\ SubSeq(last.line, 1, Len(LevelPrefix(last.lvl))) = LevelPrefix(last.lvl)

\* C15: whatever value SetLevel stored, the filterable levels on the
\* discard writer are exactly those whose rank is below the stored
\* threshold: all five for a threshold above LevelError, none for a
\* negative one.
C15_RankFilter ==
  Running =>
    \A L \in Filterable : (Deref(L).out = Discard) <=> (Rank(L) < level)

\* the default file of a level: standard output for Trace, Debug and
\* Info, standard error for the others
DefaultFile(L) == IF L \in {"trace", "debug", "info"} THEN OutDefault ELSE ErrDefault

\* C16: on a Logger from New with no setter called, the threshold is
\* LevelTrace, no internal logger is on the discard writer, and every
\* emission is written: Trace, Debug and Info lines to OutDefault, the
\* lines of the other levels to ErrDefault.
C16_NewDefaults ==
  /\ level = LevelTrace
  /\ outFile = OutDefault
  /\ errFile = ErrDefault
  /\ \A L \in LevelNames : Deref(L).out = DefaultFile(L)
  /\ last.op # "none" =>
       /\ last.dest = DefaultFile(last.lvl)
       /\ written[last.dest] >= 1

C16_Witness ==
  /\ ~facade
  /\ level = LevelTrace
  /\ last.op = "Traceln"
  /\ last.dest = OutDefault
  /\ written[OutDefault] = 1

\* the Info method of the same variant as a Print method
InfoOf(m) ==
  CASE m = "Print" -> "Info"
    [] m = "Println" -> "Infoln"
    [] m = "Printf" -> "Infof"

\* C17: in every configuration a Print, Println or Printf call does what
\* Info, Infoln or Infof does for the same arguments: the same internal
\* logger, hence the same suppression and destination, the same prefix
\* and header, the same message, the same count of Writes, and a normal
\* return that leaves the Logger as it was.
C17_PrintIsInfo ==
  [][(Emitted /\ last'.op \in {"Print", "Println", "Printf"}) =>
       \E a \in ArgInputs :
         LET c == Call(InfoOf(last'.op), a)
             ll == Deref(c.ll)
             frame == Frame(facade, calldepth)
         IN /\ c.then = "return"
            /\ last' = [op |-> last'.op, lvl |-> c.ll, dest |-> ll.out,
                        line |-> FormatLine(ll, frame, c.s), text |-> c.s,
                        hlen |-> Len(ll.prefix) + Len(Header(ll.flag, frame))]
            /\ written' = IF ll.out \in Files
                            THEN [written EXCEPT ![ll.out] = @ + 1]
                            ELSE written
            /\ UNCHANGED <<config, route, proc, gor>>]_vars

C17_Witness ==
  /\ level = LevelInfo
  /\ last.op = "Printf"
  /\ last.lvl = "info"
  /\ last.dest = outFile
  /\ SubSeq(last.line, 1, Len(PrefixInfo)) = PrefixInfo

\* C19: SetLevel changes level only, SetPrefix customPrefix only, SetFlags
\* flags only and SetOutput outFile and errFile only among the
\* configuration fields, calldepth being left alone by all four; an
\* emission call, written or suppressed, changes no configuration field
\* and no internal logger.
C19_FrameEffects ==
  [][IF Emitted
       THEN UNCHANGED <<level, customPrefix, customPrefixLen, flags, outFile,
                        errFile, calldepth, ptr, heap>>
       ELSE /\ \A T \in LevelInputs :
                 SetLevel(T) =>
                   UNCHANGED <<customPrefix, customPrefixLen, flags, outFile,
                               errFile, calldepth>>
            /\ \A p \in PrefixInputs :
                 SetPrefix(p) =>
                   UNCHANGED <<level, flags, outFile, errFile, calldepth>>
            /\ \A f \in FlagInputs :
                 SetFlags(f) =>
                   UNCHANGED <<level, customPrefix, customPrefixLen, outFile,
                               errFile, calldepth>>
            /\ \A o \in SinkInputs :
                 SetOutput(o[1], o[2]) =>
                   UNCHANGED <<level, customPrefix, customPrefixLen, flags,
                               calldepth>>]_vars

\* every setter has stored something, then a suppressed Info call
C19_Witness ==
  /\ ~facade
  /\ calldepth = 3
  /\ level = LevelWarning
  /\ customPrefix = <<"\t", " ">>
  /\ flags = Ltime + Lshortfile
  /\ outFile = ErrDefault
  /\ last.op = "Info"
  /\ last.dest = Discard

====
